---- MODULE Spec2Model ----
(***************************************************************************)
(* A model of snyke: the simulation engine (engine.py: Snake, GameModel,   *)
(* MenuModel) and the controller multiplexer (multiplexer.py).             *)
(*                                                                         *)
(* Coordinates are records [col, row]; a snake is a record with the fields *)
(* of the Snake class; the GameModel instance is the record `model`.       *)
(* Snake indices are 0-based as in the source, so snake i is               *)
(* model.snakes[i + 1].                                                    *)
(***************************************************************************)
EXTENDS Integers, Sequences, FiniteSets, TLC

VARIABLES
    model,          \* the GameModel instance (its fields)
    selected_idx,   \* MenuModel._selected_idx
    current,        \* ControllerController._current: "menu" or "game"
    moves,          \* advancing steps since the last reset (bounds the run)
    op,             \* the entry point called last
    ts,             \* the timestamp / tick argument of the last call
    named,          \* snake indices the last step's input pairs addressed
    given,          \* the input pairs of the last step if one of their indices
                    \* is outside 0..nsnakes-1, else <<>>
    ret,            \* <<state>> returned by the last GameModel.step, <<>> if none
    raised,         \* the exception the last call raised, "none" if it returned
    placed,         \* <<coord>> of the food the last call appended, else <<>>
    view_calls,     \* view draw calls made by the last call, in order
    handled,        \* the Action the last call passed to _handle_action
    hooks,          \* enter/exit hooks run by the last call, in order
    action          \* the Action the mediator returned last

vars == <<model, selected_idx, current, moves, op, ts, named, given, ret,
          raised, placed, view_calls, handled, hooks, action>>

(***************************************************************************)
(* Bounds of the model and constants of the program.                       *)
(***************************************************************************)
MaxMoves == 4        \* advancing steps per session, single-snake games
MaxMovesMulti == 1   \* advancing steps per session, games of several snakes
MaxOptions == 3      \* options of the menus MenuModel.next and prev are tried on
MaxLen == 3          \* segments of the snakes constructed on their own

InitStepDt == 100    \* reset: self._step_dt = 100
MaxFood == 3         \* step: add_food = len(self._food) < 3
GrowBy == 5          \* _detect_collisions: snake.grow(5)
SpeedDelta == 2      \* _detect_collisions: self._step_dt -= 2

\* The constructor arguments of GameModel the model is run with: a grid of one
\* cell, a column of two cells with a longer food interval, a 2 x 2 grid, and
\* a 3 x 3 grid with two snakes of two segments.
Configs ==
    { [dim |-> [width |-> 1, height |-> 1], nsnakes |-> 1, snake_len |-> 1,
       food_interval |-> 40],
      [dim |-> [width |-> 1, height |-> 2], nsnakes |-> 1, snake_len |-> 1,
       food_interval |-> 50],
      [dim |-> [width |-> 2, height |-> 2], nsnakes |-> 1, snake_len |-> 1,
       food_interval |-> 40],
      [dim |-> [width |-> 3, height |-> 3], nsnakes |-> 2, snake_len |-> 2,
       food_interval |-> 50] }

\* Timestamps offered to a call, relative to the last-step timestamp.
TsDeltas == {50, 100}

Directions == {"UP", "DOWN", "RIGHT", "LEFT"}

Coord(c, r) == [col |-> c, row |-> r]

State(collisions, is_game_over) ==
    [collisions |-> collisions, is_game_over |-> is_game_over]

(***************************************************************************)
(* Snake                                                                   *)
(***************************************************************************)
create(head, length, direction) ==
    LET row_offset == IF direction = "UP" THEN 1
                      ELSE IF direction = "DOWN" THEN -1 ELSE 0
        col_offset == IF direction = "UP" \/ direction = "DOWN" THEN 0
                      ELSE IF direction = "LEFT" THEN -1 ELSE 1
    IN  [i \in 1..length |->
            Coord(head.col + (i - 1) * col_offset, head.row + (i - 1) * row_offset)]

Snake(head, length, direction) ==
    [cells |-> create(head, length, direction),
     direction |-> direction,
     next_direction |-> direction,
     points |-> 0]

grow(s, n) ==
    LET tail == s.cells[Len(s.cells)]
    IN  [s EXCEPT !.cells = @ \o [i \in 1..n |-> tail], !.points = @ + n]

\* The setter testing the pending direction in place of the committed one.
set_direction_pending(s, d) ==
    IF d = "UP" /\ s.next_direction # "DOWN" THEN [s EXCEPT !.next_direction = d]
    ELSE IF d = "DOWN" /\ s.next_direction # "UP" THEN [s EXCEPT !.next_direction = d]
    ELSE IF d = "RIGHT" /\ s.next_direction # "LEFT" THEN [s EXCEPT !.next_direction = d]
    ELSE IF d = "LEFT" /\ s.next_direction # "RIGHT" THEN [s EXCEPT !.next_direction = d]
    ELSE s

\* The direction setter: a request that reverses the committed direction
\* falls through all four tests and changes nothing.
set_direction(s, d) ==
    IF d = "UP" /\ s.direction # "DOWN" THEN [s EXCEPT !.next_direction = d]
    ELSE IF d = "DOWN" /\ s.direction # "UP" THEN [s EXCEPT !.next_direction = d]
    ELSE IF d = "RIGHT" /\ s.direction # "LEFT" THEN [s EXCEPT !.next_direction = d]
    ELSE IF d = "LEFT" /\ s.direction # "RIGHT" THEN [s EXCEPT !.next_direction = d]
    ELSE s

contains(s, c, disregard_head) ==
    IF disregard_head
    THEN \E k \in 2..Len(s.cells) : s.cells[k] = c
    ELSE \E k \in 1..Len(s.cells) : s.cells[k] = c

collides_with_boundary(s, boundary) ==
    LET head == s.cells[1]
    IN  ~ ( (0 <= head.row /\ head.row <= boundary.height)
            /\ (0 <= head.col /\ head.col <= boundary.width) )

collides_with_snake_own(snakes, i, j) ==
    LET self == snakes[i + 1]
    IN  i = j /\ \E k \in 2..Len(self.cells) : self.cells[k] = self.cells[1]

\* snakes[i + 1] against snakes[j + 1]; `self is snake` is i = j.
collides_with_snake(snakes, i, j) ==
    LET self == snakes[i + 1]
        head == self.cells[1]
    IN  IF i = j
        THEN \E k \in 2..Len(self.cells) : self.cells[k] = head
        ELSE \E k \in 1..Len(snakes[j + 1].cells) : snakes[j + 1].cells[k] = head

collides_with_food(s, food) == s.cells[1] = food

\* move with the row steps of UP and DOWN exchanged.
move_rows_swapped(s) ==
    LET head == s.cells[1]
        d == s.next_direction
        new_head == IF d = "UP" THEN Coord(head.col, head.row + 1)
                    ELSE IF d = "DOWN" THEN Coord(head.col, head.row - 1)
                    ELSE IF d = "LEFT" THEN Coord(head.col - 1, head.row)
                    ELSE Coord(head.col + 1, head.row)
    IN  [s EXCEPT !.direction = d,
                  !.cells = <<new_head>> \o SubSeq(s.cells, 1, Len(s.cells) - 1),
                  !.points = @ + 1]

\* move that prepends the new head and keeps the last segment.
move_keep_tail(s) ==
    LET head == s.cells[1]
        d == s.next_direction
        new_head == IF d = "UP" THEN Coord(head.col, head.row - 1)
                    ELSE IF d = "DOWN" THEN Coord(head.col, head.row + 1)
                    ELSE IF d = "LEFT" THEN Coord(head.col - 1, head.row)
                    ELSE Coord(head.col + 1, head.row)
    IN  [s EXCEPT !.direction = d,
                  !.cells = <<new_head>> \o s.cells,
                  !.points = @ + 1]

move(s) ==
    LET head == s.cells[1]
        d == s.next_direction
        new_head == IF d = "UP" THEN Coord(head.col, head.row - 1)
                    ELSE IF d = "DOWN" THEN Coord(head.col, head.row + 1)
                    ELSE IF d = "LEFT" THEN Coord(head.col - 1, head.row)
                    ELSE Coord(head.col + 1, head.row)
    IN  [s EXCEPT !.direction = d,
                  !.cells = <<new_head>> \o SubSeq(s.cells, 1, Len(s.cells) - 1),
                  !.points = @ + 1]

(***************************************************************************)
(* GameModel                                                               *)
(***************************************************************************)
\* Python's a // b for b # 0: the quotient rounded towards minus infinity.
FloorDiv(a, b) == IF b > 0 THEN a \div b ELSE (0 - a) \div (0 - b)

\* reset, as a function of the constructor arguments kept in the instance.
reset(m) ==
    LET snake_spacing == FloorDiv(m.dim.width, m.nsnakes + 1)
        head_position == (m.dim.height + m.snake_len) \div 2
    IN  [dim |-> m.dim,
         nsnakes |-> m.nsnakes,
         snake_len |-> m.snake_len,
         food_interval |-> m.food_interval,
         step_ts |-> 0,
         step_dt |-> InitStepDt,
         food_ts |-> m.food_interval,
         food_dt |-> m.food_interval,
         snakes |-> [i \in 1..m.nsnakes |->
                        Snake(Coord(snake_spacing * i, head_position),
                              m.snake_len, "UP")],
         food |-> <<>>,
         state |-> State(<<>>, FALSE)]

\* GameModel.__init__: keep the arguments, then reset.
GameModel(cfg) ==
    reset([dim |-> cfg.dim, nsnakes |-> cfg.nsnakes, snake_len |-> cfg.snake_len,
           food_interval |-> cfg.food_interval])

\* GameModel.__init__ with any arguments: nothing is tested, the arguments are
\* kept and reset runs; the one construction that fails is the division by
\* nsnakes + 1 = 0 in reset, after reset has set the four time fields.
GameModel_init(cfg) ==
    IF cfg.nsnakes + 1 = 0
    THEN [raised |-> "ZeroDivisionError",
          model |-> [dim |-> cfg.dim, nsnakes |-> cfg.nsnakes,
                     snake_len |-> cfg.snake_len,
                     food_interval |-> cfg.food_interval,
                     step_ts |-> 0, step_dt |-> InitStepDt,
                     food_ts |-> cfg.food_interval,
                     food_dt |-> cfg.food_interval]]
    ELSE [raised |-> "none", model |-> GameModel(cfg)]

\* self._snakes[idx] of a Python list of n items: a negative index counts from
\* the end, an index outside -n..n-1 raises IndexError.
IndexOk(idx, n) == -n <= idx /\ idx < n
PyIndex(idx, n) == IF idx < 0 THEN idx + n ELSE idx

\* _update_snake_inputs from input pair k on: the pairs are applied in order
\* until one raises.  named collects the (0-based) snakes addressed.
RECURSIVE update_snake_inputs(_, _, _, _)
update_snake_inputs(snakes, inputs, k, addressed) ==
    IF k > Len(inputs)
    THEN [snakes |-> snakes, raised |-> "none", named |-> addressed]
    ELSE LET idx == inputs[k][1]
             direction == inputs[k][2]
             n == Len(snakes)
         IN  IF ~IndexOk(idx, n)
             THEN [snakes |-> snakes, raised |-> "IndexError", named |-> addressed]
             ELSE LET i == PyIndex(idx, n)
                  IN  update_snake_inputs(
                          [snakes EXCEPT ![i + 1] = set_direction(@, direction)],
                          inputs, k + 1, addressed \cup {i})

snake_at_head(m, c) == \E i \in 1..Len(m.snakes) : m.snakes[i].cells[1] = c

snake_at(m, c) == \E i \in 1..Len(m.snakes) : contains(m.snakes[i], c, FALSE)

food_at(m, c) == \E k \in 1..Len(m.food) : m.food[k] = c

\* The number of cells `for row in range(height): for col in range(width)`
\* visits; a range of a non-positive number is empty.
GridCells(dim) == IF dim.width > 0 /\ dim.height > 0 THEN dim.width * dim.height ELSE 0

\* The loop of _add_food over the grid in row-major order, from the cell
\* visited as number i on.  food_coord is tracked as the set of values it may
\* hold (bound) and whether it may still be unassigned (unbound): i has been
\* incremented before the test, so `i == 0` never holds and a free cell is
\* taken exactly when random.randint(1, i) == 1, which is certain for i = 1
\* and a matter of chance for i > 1.
RECURSIVE add_food_loop(_, _, _, _)
add_food_loop(m, i, bound, unbound) ==
    IF i > GridCells(m.dim)
    THEN [bound |-> bound, unbound |-> unbound]
    ELSE LET coord == Coord((i - 1) % m.dim.width, (i - 1) \div m.dim.width)
         IN  IF ~snake_at(m, coord) /\ ~food_at(m, coord)
             THEN IF i = 0 THEN add_food_loop(m, i + 1, {coord}, FALSE)
                  ELSE IF i = 1 THEN add_food_loop(m, i + 1, {coord}, FALSE)
                  ELSE add_food_loop(m, i + 1, bound \cup {coord}, unbound)
             ELSE add_food_loop(m, i + 1, bound, unbound)

\* _add_food: the instances it may leave, and whether the final append may
\* read food_coord unassigned (UnboundLocalError).
add_food(m) ==
    LET r == add_food_loop(m, 1, {}, TRUE)
    IN  [models |-> {[m EXCEPT !.food = Append(@, c)] : c \in r.bound},
         raises |-> r.unbound]

Last(seq) == seq[Len(seq)]

RemoveAt(seq, k) == SubSeq(seq, 1, k - 1) \o SubSeq(seq, k + 1, Len(seq))

\* The food loop with the step interval raised where the code lowers it.
RECURSIVE food_loop_slower(_, _, _)
food_loop_slower(m, i, k) ==
    IF k > Len(m.food) THEN m
    ELSE IF collides_with_food(m.snakes[i + 1], m.food[k])
         THEN food_loop_slower([m EXCEPT !.food = RemoveAt(@, k),
                                         !.snakes[i + 1] = grow(@, GrowBy),
                                         !.step_dt = @ + SpeedDelta],
                               i, k + 1)
         ELSE food_loop_slower(m, i, k + 1)

\* `for food in self._food` of _detect_collisions for snake i, from list
\* position k on.  The list iterator keeps a position, and self._food.remove
\* shortens the list under it.
RECURSIVE food_loop(_, _, _)
food_loop(m, i, k) ==
    IF k > Len(m.food) THEN m
    ELSE IF collides_with_food(m.snakes[i + 1], m.food[k])
         THEN food_loop([m EXCEPT !.food = RemoveAt(@, k),
                                  !.snakes[i + 1] = grow(@, GrowBy),
                                  !.step_dt = @ - SpeedDelta],
                        i, k + 1)
         ELSE food_loop(m, i, k + 1)

\* `for other in self._snakes` for snake i: one entry per snake it hits.
RECURSIVE other_loop(_, _, _, _)
other_loop(snakes, i, j, collisions) ==
    IF j >= Len(snakes) THEN collisions
    ELSE other_loop(snakes, i, j + 1,
                    IF collides_with_snake(snakes, i, j)
                    THEN Append(collisions, i) ELSE collisions)

\* _detect_collisions from snake i on: the instance (food eaten, snakes grown,
\* step interval lowered) and the list of collided indices.
RECURSIVE detect_collisions(_, _, _)
detect_collisions(m, i, collisions) ==
    IF i >= Len(m.snakes)
    THEN [model |-> m, collisions |-> collisions]
    ELSE IF collides_with_boundary(m.snakes[i + 1], m.dim)
         THEN detect_collisions(m, i + 1, Append(collisions, i))
         ELSE detect_collisions(food_loop(m, i, 1), i + 1,
                                other_loop(m.snakes, i, 0, collisions))

\* _update_game_state after the moves and the food placement.
finish_game_state(m) ==
    LET d == detect_collisions(m, 0, <<>>)
    IN  [d.model EXCEPT !.state = State(d.collisions, Len(d.collisions) > 0)]

\* _update_game_state: the outcomes [model, raised, placed].  move reads
\* self._cells[0] first, which raises IndexError for a snake of no cells; the
\* snakes before it have moved by then.
update_game_state(m, add) ==
    LET empty == {i \in 1..Len(m.snakes) : Len(m.snakes[i].cells) = 0}
        first == CHOOSE i \in empty : \A j \in empty : i <= j
        moved == [m EXCEPT !.snakes = [i \in 1..Len(m.snakes) |-> move(m.snakes[i])]]
        fed == add_food(moved)
    IN  IF empty # {}
        THEN {[model |-> [m EXCEPT !.snakes =
                            [i \in 1..Len(m.snakes) |->
                                IF i < first THEN move(m.snakes[i]) ELSE m.snakes[i]]],
               raised |-> "IndexError", placed |-> <<>>]}
        ELSE IF ~add
        THEN {[model |-> finish_game_state(moved), raised |-> "none", placed |-> <<>>]}
        ELSE {[model |-> finish_game_state(p), raised |-> "none",
               placed |-> <<Last(p.food)>>] : p \in fed.models}
             \cup (IF fed.raises
                   THEN {[model |-> moved, raised |-> "UnboundLocalError",
                          placed |-> <<>>]}
                   ELSE {})

gate_closed_food(m, t) == t - m.step_ts < m.food_dt

\* The timing gate of step: the call returns the previous result.
gate_closed(m, t) == t - m.step_ts < m.step_dt

food_wanted_any(m) == TRUE

\* add_food = len(self._food) < 3
food_wanted(m) == Len(m.food) < MaxFood

\* GameModel.step(t, inputs): the set of outcomes
\* [model, ret, raised, named, placed, draws, advanced].
step(m, t, inputs) ==
    LET upd == update_snake_inputs(m.snakes, inputs, 1, {})
        m1 == [m EXCEPT !.snakes = upd.snakes]
    IN  IF upd.raised # "none"
        THEN {[model |-> m1, ret |-> <<>>, raised |-> upd.raised,
               named |-> upd.named, placed |-> <<>>, draws |-> <<>>,
               advanced |-> FALSE]}
        ELSE IF gate_closed(m1, t)
        THEN {[model |-> m1, ret |-> <<m1.state>>, raised |-> "none",
               named |-> upd.named, placed |-> <<>>, draws |-> <<>>,
               advanced |-> FALSE]}
        ELSE LET m2 == [m1 EXCEPT !.step_ts = t]
                 spawn == t - m2.food_ts > m2.food_dt
                 add == IF spawn THEN food_wanted(m2) ELSE FALSE
                 m3 == IF spawn THEN [m2 EXCEPT !.food_ts = t] ELSE m2
             IN  { IF o.raised = "none"
                   THEN [model |-> o.model, ret |-> <<o.model.state>>,
                         raised |-> "none", named |-> upd.named,
                         placed |-> o.placed, draws |-> <<"game.draw">>,
                         advanced |-> TRUE]
                   ELSE [model |-> o.model, ret |-> <<>>, raised |-> o.raised,
                         named |-> upd.named, placed |-> <<>>, draws |-> <<>>,
                         advanced |-> TRUE]
                   : o \in update_game_state(m3, add) }

(***************************************************************************)
(* MenuModel                                                               *)
(***************************************************************************)
\* The option keys MenuController.enter_pressed knows.
Options == <<"new_game", "exit_game">>

\* MenuModel.next and MenuModel.prev on a menu of n options.
MenuModel_next(idx, n) == (idx + 1) % n

\* prev that stops at the first option.
MenuModel_prev_no_wrap(idx, n) == IF idx - 1 < 0 THEN 0 ELSE idx - 1

MenuModel_prev(idx, n) == IF idx - 1 < 0 THEN n - 1 ELSE idx - 1

menu_next(idx) == MenuModel_next(idx, Len(Options))

menu_prev(idx) == MenuModel_prev(idx, Len(Options))

selected(idx) == Options[idx + 1]

(***************************************************************************)
(* The controllers.  A handler yields the set of its outcomes              *)
(* [model, selected_idx, action, raised, ret, named, placed, draws,        *)
(*  advanced]; action is the class of the Action returned, "raised" when   *)
(* the handler raised instead.                                             *)
(***************************************************************************)
Modes == {"menu", "game"}

Actions == {"Action", "ActionNewGame", "ActionExitGame", "ActionGameOver"}

\* A handler that touches neither model and returns the Action a.
Returns(m, idx, a, draws) ==
    {[model |-> m, selected_idx |-> idx, action |-> a, raised |-> "none",
      ret |-> <<>>, named |-> {}, placed |-> <<>>, draws |-> draws,
      advanced |-> FALSE]}

\* GameController.left_pressed .. down_pressed: step for snake 0, the result
\* is dropped.
GameController_pressed(m, idx, tick, direction) ==
    { [model |-> o.model, selected_idx |-> idx,
       action |-> IF o.raised = "none" THEN "Action" ELSE "raised",
       raised |-> o.raised, ret |-> o.ret, named |-> o.named,
       placed |-> o.placed, draws |-> o.draws, advanced |-> o.advanced]
      : o \in step(m, tick, << <<0, direction>> >>) }

GameController_update(m, idx, tick) ==
    { [model |-> o.model, selected_idx |-> idx,
       action |-> IF o.raised # "none" THEN "raised"
                  ELSE IF o.ret[1].is_game_over THEN "ActionGameOver"
                  ELSE "Action",
       raised |-> o.raised, ret |-> o.ret, named |-> o.named,
       placed |-> o.placed, draws |-> o.draws, advanced |-> o.advanced]
      : o \in step(m, tick, <<>>) }

\* GameController.enter: reset, then update whose Action is dropped.
GameController_enter(m, idx, tick) ==
    { [o EXCEPT !.action = IF o.raised # "none" THEN "raised" ELSE "Action"]
      : o \in GameController_update(reset(m), idx, tick) }

\* MenuController.enter: MenuModel.refresh draws the options.
MenuController_enter(m, idx, tick) == Returns(m, idx, "Action", <<"menu.draw">>)

MenuController_enter_pressed(m, idx, tick) ==
    LET key == selected(idx)
    IN  Returns(m, idx,
                IF key = "new_game" THEN "ActionNewGame"
                ELSE IF key = "exit_game" THEN "ActionExitGame"
                ELSE "Action",
                <<>>)

Events == {"left_pressed", "right_pressed", "up_pressed", "down_pressed",
           "enter_pressed", "update"}

\* self._current.<event>(tick)
handler(cur, event, m, idx, tick) ==
    IF cur = "game"
    THEN IF event = "left_pressed" THEN GameController_pressed(m, idx, tick, "LEFT")
         ELSE IF event = "right_pressed" THEN GameController_pressed(m, idx, tick, "RIGHT")
         ELSE IF event = "up_pressed" THEN GameController_pressed(m, idx, tick, "UP")
         ELSE IF event = "down_pressed" THEN GameController_pressed(m, idx, tick, "DOWN")
         ELSE IF event = "update" THEN GameController_update(m, idx, tick)
         ELSE Returns(m, idx, "Action", <<>>)
    ELSE IF event = "up_pressed"
         THEN Returns(m, menu_prev(idx), "Action", <<"menu.draw">>)
         ELSE IF event = "down_pressed"
         THEN Returns(m, menu_next(idx), "Action", <<"menu.draw">>)
         ELSE IF event = "enter_pressed" THEN MenuController_enter_pressed(m, idx, tick)
         ELSE Returns(m, idx, "Action", <<>>)

\* self._current.enter(tick, data) of the controller cur.
enter_hook(cur, m, idx, tick) ==
    IF cur = "game" THEN GameController_enter(m, idx, tick)
    ELSE MenuController_enter(m, idx, tick)

destination_no_game_over(a) == IF a = "ActionNewGame" THEN "game" ELSE ""

\* The destination _handle_action picks for an Action, "" when it returns
\* the Action to the caller.
destination(a) ==
    IF a = "ActionNewGame" THEN "game"
    ELSE IF a = "ActionExitGame" THEN ""
    ELSE IF a = "ActionGameOver" THEN "menu"
    ELSE ""

switch_always(cur, next) == TRUE

\* if next is not self._current
switch(cur, next) == next # cur

\* ControllerController._handle_action(tick, r.action) after the handler
\* outcome r: the outcomes [current, hooks, handled] joined to the handler's.
handle_action(cur, r, tick) ==
    LET next == destination(r.action)
        base == [model |-> r.model, selected_idx |-> r.selected_idx,
                 ret |-> r.ret, raised |-> r.raised, named |-> r.named,
                 placed |-> r.placed, draws |-> r.draws, advanced |-> r.advanced,
                 reset |-> FALSE, handled |-> r.action,
                 current |-> cur, hooks |-> <<>>, action |-> r.action]
    IN  IF next = "" THEN {base}
        ELSE IF ~switch(cur, next) THEN {[base EXCEPT !.action = "Action"]}
        ELSE { [model |-> e.model, selected_idx |-> e.selected_idx,
                ret |-> IF next = "game" THEN e.ret ELSE r.ret,
                raised |-> e.raised, named |-> r.named \cup e.named,
                placed |-> IF next = "game" THEN e.placed ELSE r.placed,
                draws |-> r.draws \o e.draws,
                advanced |-> IF next = "game" THEN e.advanced ELSE r.advanced,
                reset |-> next = "game", handled |-> r.action,
                current |-> next,
                hooks |-> <<cur \o ".exit", next \o ".enter">>,
                action |-> IF e.raised # "none" THEN "raised" ELSE "Action"]
               : e \in enter_hook(next, r.model, r.selected_idx, tick) }

\* ControllerController.<event>(tick): the handler of the current
\* controller, then _handle_action unless the handler raised.
mediate(cur, event, m, idx, tick) ==
    UNION { IF r.raised # "none"
            THEN {[model |-> r.model, selected_idx |-> r.selected_idx,
                   ret |-> r.ret, raised |-> r.raised, named |-> r.named,
                   placed |-> r.placed, draws |-> r.draws,
                   advanced |-> r.advanced, reset |-> FALSE, handled |-> "none",
                   current |-> cur, hooks |-> <<>>, action |-> "raised"]}
            ELSE handle_action(cur, r, tick)
            : r \in handler(cur, event, m, idx, tick) }

(***************************************************************************)
(* The engine driven directly: any reset and step calls.                   *)
(***************************************************************************)
MoveLimit(m) == IF m.nsnakes = 1 THEN MaxMoves ELSE MaxMovesMulti

\* An input pair as a caller may pass it: an index of a snake, the negative
\* index -1, or the index one past the last snake (the direction paired with
\* it is never read, so one direction stands for all).
Pairs(m) == ((-1..(m.nsnakes - 1)) \X Directions) \cup {<<m.nsnakes, "UP">>}

PlayerPairs == {0} \X Directions

\* The input batches offered to step: none, one pair, or a pair followed by
\* one for snake 0.
Batches(m) ==
    {<<>>} \cup {<<p>> : p \in Pairs(m)}
           \cup {<<p, q>> : p \in Pairs(m), q \in PlayerPairs}

Init ==
    /\ model \in {GameModel(cfg) : cfg \in Configs}
    /\ selected_idx = 0
    /\ current = "menu"
    /\ moves = 0
    /\ op = "init"
    /\ ts = 0
    /\ named = {}
    /\ given = <<>>
    /\ ret = <<>>
    /\ raised = "none"
    /\ placed = <<>>
    /\ view_calls = <<>>
    /\ handled = "none"
    /\ hooks = <<>>
    /\ action = "Action"

Reset ==
    /\ model' = reset(model)
    /\ moves' = 0
    /\ op' = "reset"
    /\ ts' = 0
    /\ named' = {}
    /\ given' = <<>>
    /\ ret' = <<>>
    /\ raised' = "none"
    /\ placed' = <<>>
    /\ view_calls' = <<>>
    /\ UNCHANGED <<selected_idx, current, handled, hooks, action>>

\* A batch with an index that is not one of 0..n-1.
Stray(batch, n) == \E k \in 1..Len(batch) : batch[k][1] < 0 \/ batch[k][1] >= n

\* A step call with a timestamp and a batch out of batches.
StepFrom(batches) ==
    \E d \in TsDeltas, batch \in batches :
        LET t == model.step_ts + d
        IN  /\ gate_closed(model, t) \/ moves < MoveLimit(model)
            /\ \E o \in step(model, t, batch) :
                /\ model' = o.model
                /\ given' = IF Stray(batch, Len(model.snakes)) THEN batch ELSE <<>>
                /\ moves' = IF o.advanced THEN moves + 1 ELSE moves
                /\ op' = "step"
                /\ ts' = t
                /\ named' = o.named
                /\ ret' = o.ret
                /\ raised' = o.raised
                /\ placed' = o.placed
                /\ view_calls' = o.draws
                /\ UNCHANGED <<selected_idx, current, handled, hooks, action>>

\* The batches a session passes: every index is that of a snake.
SessionBatches(m) == {b \in Batches(m) : ~Stray(b, m.nsnakes)}

Step == StepFrom(SessionBatches(model))

Next == Reset \/ Step

Spec == Init /\ [][Next]_vars

(***************************************************************************)
(* The application: the driver calls the mediator on every input event and *)
(* once per frame.                                                         *)
(***************************************************************************)
\* The effect of a mediator call with outcome o.
Mediated(name, tick, o) ==
    /\ model' = o.model
    /\ given' = <<>>     \* the controllers pass index 0 only
    /\ selected_idx' = o.selected_idx
    /\ current' = o.current
    /\ moves' = IF o.reset THEN (IF o.advanced THEN 1 ELSE 0)
                ELSE IF o.advanced THEN moves + 1 ELSE moves
    /\ op' = name
    /\ ts' = tick
    /\ named' = o.named
    /\ ret' = o.ret
    /\ raised' = o.raised
    /\ placed' = o.placed
    /\ view_calls' = o.draws
    /\ handled' = o.handled
    /\ hooks' = o.hooks
    /\ action' = o.action

\* A call that may advance the engine stays within the move bound.
InBound(tick) ==
    current = "menu" \/ gate_closed(model, tick) \/ moves < MoveLimit(model)

\* Ticks are offered relative to the timestamp the gate of the next step
\* compares with: the last-step timestamp in a game, that of a reset engine
\* in the menu (where only a new game reads the tick).
TickBase == IF current = "menu" THEN 0 ELSE model.step_ts

Event(name) ==
    \E d \in TsDeltas :
        LET tick == TickBase + d
        IN  /\ InBound(tick)
            /\ \E o \in mediate(current, name, model, selected_idx, tick) :
                   Mediated(name, tick, o)

left_pressed == Event("left_pressed")

right_pressed == Event("right_pressed")

up_pressed == Event("up_pressed")

down_pressed == Event("down_pressed")

enter_pressed == Event("enter_pressed")

update == Event("update")

\* ControllerController.enter(tick): the entry hook of the current controller.
\* The game's hook resets the engine before it reads the tick, so the tick is
\* offered relative to the timestamp of a reset engine.
enter ==
    \E d \in TsDeltas :
        LET tick == d
        IN  \E e \in enter_hook(current, model, selected_idx, tick) :
                Mediated("enter", tick,
                         [model |-> e.model, selected_idx |-> e.selected_idx,
                          ret |-> e.ret, raised |-> e.raised, named |-> e.named,
                          placed |-> e.placed, draws |-> e.draws,
                          advanced |-> e.advanced, reset |-> current = "game",
                          handled |-> "none", current |-> current,
                          hooks |-> <<current \o ".enter">>,
                          action |-> IF e.raised # "none" THEN "raised"
                                     ELSE "Action"])

NextApp ==
    \/ enter
    \/ left_pressed
    \/ right_pressed
    \/ up_pressed
    \/ down_pressed
    \/ enter_pressed
    \/ update

SpecApp == Init /\ [][NextApp]_vars

(***************************************************************************)
(* _handle_action on its own: any Action handed to it in any mode.         *)
(***************************************************************************)
HandleAction ==
    \E d \in TsDeltas, a \in Actions :
        LET tick == TickBase + d
        IN  \E r \in Returns(model, selected_idx, a, <<>>) :
                \E o \in handle_action(current, r, tick) :
                    Mediated("handle_action", tick, o)

NextHandle == NextApp \/ HandleAction

\* What _handle_action does is the same for every engine: this specification
\* starts from the engines of the grids of at most two cells.
InitHandle ==
    /\ Init
    /\ model.dim.width * model.dim.height <= 2

SpecHandle == InitHandle /\ [][NextHandle]_vars

(***************************************************************************)
(* The engine driven with batches of any indices, on the column of two     *)
(* cells and on the grid of two snakes.                                    *)
(***************************************************************************)
InitInputs ==
    /\ Init
    /\ model.dim.height > model.dim.width \/ model.nsnakes > 1

StepInputs == StepFrom(Batches(model))

NextInputs == Reset \/ StepInputs

SpecInputs == InitInputs /\ [][NextInputs]_vars

(***************************************************************************)
(* Construction with any arguments, then the engine driven directly.       *)
(***************************************************************************)
\* Constructor arguments of which one is not positive, and one set of
\* positive arguments.
ConfigArgs ==
    { [dim |-> [width |-> 0, height |-> 2], nsnakes |-> 1, snake_len |-> 1,
       food_interval |-> 50],
      [dim |-> [width |-> 2, height |-> -1], nsnakes |-> 1, snake_len |-> 1,
       food_interval |-> 50],
      [dim |-> [width |-> 2, height |-> 2], nsnakes |-> 0, snake_len |-> 1,
       food_interval |-> 40],
      [dim |-> [width |-> 2, height |-> 2], nsnakes |-> -1, snake_len |-> 1,
       food_interval |-> 40],
      [dim |-> [width |-> 2, height |-> 2], nsnakes |-> 1, snake_len |-> 0,
       food_interval |-> 40],
      [dim |-> [width |-> 1, height |-> 2], nsnakes |-> 1, snake_len |-> 1,
       food_interval |-> 50] }

InitConfig ==
    /\ \E cfg \in ConfigArgs :
          /\ model = GameModel_init(cfg).model
          /\ raised = GameModel_init(cfg).raised
    /\ selected_idx = 0
    /\ current = "menu"
    /\ moves = 0
    /\ op = "GameModel"
    /\ ts = 0
    /\ named = {}
    /\ given = <<>>
    /\ ret = <<>>
    /\ placed = <<>>
    /\ view_calls = <<>>
    /\ handled = "none"
    /\ hooks = <<>>
    /\ action = "Action"

\* The constructor returned an instance.
Constructed == ~(op = "GameModel" /\ raised # "none")

ResetConstructed == Constructed /\ Reset

StepConstructed == Constructed /\ Step

NextConfig == ResetConstructed \/ StepConstructed

SpecConfig == InitConfig /\ [][NextConfig]_vars

(***************************************************************************)
(* A Snake on its own: constructed with any head, length and direction,    *)
(* then moved.  model holds the one snake; moves counts its moves.         *)
(***************************************************************************)
Heads == {Coord(c, r) : c \in 0..2, r \in 0..2}

InitSnake ==
    /\ \E head \in Heads, length \in 1..MaxLen, direction \in Directions :
          model = [snakes |-> <<Snake(head, length, direction)>>]
    /\ selected_idx = 0
    /\ current = "menu"
    /\ moves = 0
    /\ op = "Snake"
    /\ ts = 0
    /\ named = {}
    /\ given = <<>>
    /\ ret = <<>>
    /\ raised = "none"
    /\ placed = <<>>
    /\ view_calls = <<>>
    /\ handled = "none"
    /\ hooks = <<>>
    /\ action = "Action"

\* snake.direction = d
SnakeTurn ==
    \E d \in Directions :
        /\ model' = [snakes |-> <<set_direction(model.snakes[1], d)>>]
        /\ op' = "direction"
        /\ UNCHANGED <<selected_idx, current, moves, ts, named, given, ret, raised,
                       placed, view_calls, handled, hooks, action>>

\* snake.move()
SnakeMove ==
    /\ moves < MaxMoves
    /\ model' = [snakes |-> <<move(model.snakes[1])>>]
    /\ moves' = moves + 1
    /\ op' = "move"
    /\ UNCHANGED <<selected_idx, current, ts, named, given, ret, raised,
                   placed, view_calls, handled, hooks, action>>

NextSnake == SnakeTurn \/ SnakeMove

SpecSnake == InitSnake /\ [][NextSnake]_vars

(***************************************************************************)
(* Properties                                                              *)
(***************************************************************************)
Opposite(d) ==
    IF d = "UP" THEN "DOWN" ELSE IF d = "DOWN" THEN "UP"
    ELSE IF d = "LEFT" THEN "RIGHT" ELSE "LEFT"

SnakeIds == 1..Len(model.snakes)

Cells(s) == {s.cells[k] : k \in 1..Len(s.cells)}

Range(seq) == {seq[k] : k \in 1..Len(seq)}

HeadOf(i) == model.snakes[i].cells[1]

\* The last call was a step of the engine that advanced and returned.
AdvancedStep == op = "step" /\ view_calls = <<"game.draw">>

\* C1: the pending direction of a snake is never the reverse of its committed
\* direction, so whatever requests arrive between two moves, the direction a
\* move commits is never the reverse of the one the move before committed.
C1_NoReversal ==
    /\ [](\A i \in SnakeIds :
            model.snakes[i].next_direction # Opposite(model.snakes[i].direction))
    /\ [][moves' = moves + 1 =>
            \A i \in SnakeIds :
                model'.snakes[i].direction # Opposite(model.snakes[i].direction)]_vars

\* Snake 0, created facing UP, has committed DOWN: it turned twice, each time
\* on a request made between two moves.
C1_Witness == moves >= 2 /\ model.snakes[1].direction = "DOWN"

\* C2: a step called with ts - step_ts < step_dt returns the previous result
\* and changes nothing but pending directions of the snakes its inputs name;
\* the view is not drawn.
C2_GatedStep ==
    [][(op' = "step" /\ ts' - model.step_ts < model.step_dt) =>
        /\ raised' = "none" => ret' = <<model.state>>
        /\ view_calls' = <<>>
        /\ model'.state = model.state
        /\ model'.food = model.food
        /\ model'.step_dt = model.step_dt
        /\ model'.step_ts = model.step_ts
        /\ model'.food_ts = model.food_ts
        /\ Len(model'.snakes) = Len(model.snakes)
        /\ \A i \in SnakeIds :
            /\ model'.snakes[i].cells = model.snakes[i].cells
            /\ model'.snakes[i].direction = model.snakes[i].direction
            /\ model'.snakes[i].points = model.snakes[i].points
            /\ model'.snakes[i].next_direction # model.snakes[i].next_direction
                  => (i - 1) \in named']_vars

\* A gated step has returned after a move, and snake 0 has a turn pending.
C2_Witness ==
    /\ op = "step" /\ moves >= 1 /\ ts - model.step_ts < model.step_dt
    /\ ret = <<model.state>> /\ named = {0}
    /\ model.snakes[1].next_direction # model.snakes[1].direction

OutOfGrid(c, dim) == ~(0 <= c.col /\ c.col < dim.width /\ 0 <= c.row /\ c.row < dim.height)

HitsSnake(i) ==
    \/ \E k \in 2..Len(model.snakes[i].cells) : model.snakes[i].cells[k] = HeadOf(i)
    \/ \E j \in SnakeIds \ {i} : HeadOf(i) \in Cells(model.snakes[j])

\* C3: after an advancing step a snake whose head is outside
\* 0 <= col < width, 0 <= row < height is among the collided indices, and a
\* snake is among them only for that or for its head on a snake: a body
\* segment outside the grid flags nothing.
C3_BoundaryExclusive ==
    AdvancedStep =>
        \A i \in SnakeIds :
            /\ OutOfGrid(HeadOf(i), model.dim)
                  => (i - 1) \in Range(model.state.collisions)
            /\ (i - 1) \in Range(model.state.collisions)
                  => (OutOfGrid(HeadOf(i), model.dim) \/ HitsSnake(i))

\* Snake 0's head lies on a segment of snake 1 after an advancing step of a
\* two-snake game.
HeadOnOther == AdvancedStep /\ Len(model.snakes) = 2 /\ HeadOf(1) \in Cells(model.snakes[2])

BeyondBoundary(i) ==
    ~(0 <= HeadOf(i).col /\ HeadOf(i).col <= model.dim.width
      /\ 0 <= HeadOf(i).row /\ HeadOf(i).row <= model.dim.height)

SelfHit(i) == \E k \in 2..Len(model.snakes[i].cells) : model.snakes[i].cells[k] = HeadOf(i)

C5_FoodAtMostThree == Len(model.food) <= 3

C5_Witness == Len(model.food) = 3 /\ AdvancedStep

\* C6: no two live food items share a cell, and the food a step adds lies on
\* a grid cell that held no food before the step and holds no snake segment.
C6_FoodOnFreeCell ==
    /\ [](\A k \in 1..Len(model.food) : \A l \in 1..Len(model.food) :
            k # l => model.food[k] # model.food[l])
    /\ [][placed' # <<>> =>
            /\ ~OutOfGrid(placed'[1], model.dim)
            /\ placed'[1] \notin Range(model.food)
            /\ \A i \in SnakeIds : placed'[1] \notin Cells(model'.snakes[i])]_vars

\* Food was placed while a snake covered more than one cell and food lay on
\* the grid already.
C6_Witness ==
    /\ placed # <<>> /\ Len(model.food) >= 2
    /\ \E i \in SnakeIds : Cardinality(Cells(model.snakes[i])) >= 2

NoFreeCell(m) ==
    \A c \in 0..(m.dim.width - 1), r \in 0..(m.dim.height - 1) :
        \/ \E i \in 1..Len(m.snakes) : Coord(c, r) \in Cells(m.snakes[i])
        \/ Coord(c, r) \in Range(m.food)

\* C7: a step that is due to add food finds no cell free of snakes and food:
\* it returns a result and leaves the food as it was.
C7_SkipWhenFull ==
    [][(/\ op' = "step" /\ moves' = moves + 1
        /\ ts' - model.food_ts > model.food_dt
        /\ Len(model.food) < 3
        /\ model'.food = model.food
        /\ NoFreeCell(model'))
        => (raised' = "none" /\ ret' # <<>>)]_vars

\* C8: the mode is Menu or Game, Menu at first; it changes from Menu to Game
\* exactly on enter with new_game highlighted and from Game to Menu exactly
\* on an update whose step result is game over.
C8_ModeChanges ==
    /\ current = "menu"
    /\ [](current \in {"menu", "game"})
    /\ [][LET start == current = "menu" /\ op' = "enter_pressed"
                       /\ Options[selected_idx + 1] = "new_game"
              over == current = "game" /\ op' = "update"
                      /\ ret' # <<>> /\ ret'[1].is_game_over
          IN  /\ start <=> (current = "menu" /\ current' = "game")
              /\ over <=> (current = "game" /\ current' = "menu")]_vars

C8_Witness == current = "menu" /\ op = "update" /\ handled = "ActionGameOver"

\* C9: ExitApplication is the only Action other than None the mediator
\* returns; it does so exactly on enter in Menu with exit highlighted, with
\* the mode unchanged and no hook run; for NewGame and GameOver it returns
\* None.
C9_OnlyExitEscapes ==
    [][LET leave == current = "menu" /\ op' = "enter_pressed"
                       /\ Options[selected_idx + 1] = "exit_game"
       IN  /\ action' \notin {"ActionNewGame", "ActionGameOver"}
           /\ action' = "ActionExitGame" <=> leave
           /\ leave => (current' = current /\ hooks' = <<>>)
           /\ handled' \in {"ActionNewGame", "ActionGameOver"} => action' = "Action"]_vars

\* C10: a mode change runs the exit hook of the mode left, then the entry
\* hook of the mode entered, once each; an Action whose destination is the
\* current mode runs no hook and leaves the mode.
C10_HooksInOrder ==
    [][/\ current' # current =>
            hooks' = (IF current = "menu" THEN <<"menu.exit", "game.enter">>
                      ELSE <<"game.exit", "menu.enter">>)
       /\ ((handled' = "ActionNewGame" /\ current = "game")
            \/ (handled' = "ActionGameOver" /\ current = "menu"))
            => (hooks' = <<>> /\ current' = current)]_vars

C10_Witness == current = "menu" /\ hooks = <<"game.exit", "menu.enter">>

\* C11: right after a completed Menu-to-Game transition the engine is as
\* reset leaves it: the configured number of snakes, each of the configured
\* length at its initial cells with score 0, no food, step interval 100.
C11_FreshAfterNewGame ==
    [][(current = "menu" /\ current' = "game" /\ raised' = "none") =>
        /\ Len(model'.snakes) = model.nsnakes
        /\ \A i \in 1..Len(model'.snakes) :
            /\ Len(model'.snakes[i].cells) = model.snake_len
            /\ model'.snakes[i].cells = reset(model).snakes[i].cells
            /\ model'.snakes[i].points = 0
        /\ model'.food = <<>>
        /\ model'.step_dt = 100]_vars

NonPositive(m) ==
    m.dim.width <= 0 \/ m.dim.height <= 0 \/ m.nsnakes <= 0 \/ m.snake_len <= 0

\* C12: arguments of which a grid dimension, the snake count or the snake
\* length is not positive are rejected by the constructor, so no instance
\* holds them and no advancing step fails on an instance that does.
C12_ConfigRejected ==
    /\ [](NonPositive(model) => ~Constructed)
    /\ [][(op' = "step" /\ moves' = moves + 1 /\ raised' # "none")
            => ~NonPositive(model)]_vars

\* The snakes after the pairs of batch from k on whose index is one of
\* 0..n-1 have been applied in order, the other pairs left out.
RECURSIVE InRangeApplied(_, _, _)
InRangeApplied(snakes, batch, k) ==
    IF k > Len(batch) THEN snakes
    ELSE IF batch[k][1] < 0 \/ batch[k][1] >= Len(snakes)
         THEN InRangeApplied(snakes, batch, k + 1)
         ELSE InRangeApplied(
                  [snakes EXCEPT ![batch[k][1] + 1] = set_direction(@, batch[k][2])],
                  batch, k + 1)

\* C13: a step whose batch holds a pair with an index outside 0..n-1 does not
\* fail on it, and the pending directions after it are those the other pairs
\* of the batch set: the pair changes no snake and the rest are applied.
C13_StrayIndexIgnored ==
    [][(op' = "step" /\ given' # <<>>) =>
        /\ raised' # "IndexError"
        /\ \A i \in SnakeIds :
            model'.snakes[i].next_direction =
                InRangeApplied(model.snakes, given', 1)[i].next_direction]_vars

\* C14: the step interval is 100 after construction and after every reset,
\* and no step call raises it.
C14_IntervalNeverIncreases ==
    /\ [](op \in {"init", "reset"} => model.step_dt = 100)
    /\ [][op' = "step" => model'.step_dt <= model.step_dt]_vars

\* A step has lowered the interval twice since the last reset.
C14_Witness == op = "step" /\ model.step_dt <= 96

\* C15: move leaves the length of every snake a session reaches as it is; an
\* advancing step changes the length of a snake only if the cell its head
\* moves to held food before the step and holds none after it; and every
\* snake has at least one segment.
C15_LengthInvariance ==
    /\ [](\A i \in SnakeIds :
            /\ Len(move(model.snakes[i]).cells) = Len(model.snakes[i].cells)
            /\ Len(model.snakes[i].cells) >= 1)
    /\ [][(op' = "step" /\ moves' = moves + 1) =>
            \A i \in SnakeIds :
                Len(model'.snakes[i].cells) # Len(model.snakes[i].cells) =>
                    /\ model'.snakes[i].cells[1] \in Range(model.food)
                    /\ model'.snakes[i].cells[1] \notin Range(model'.food)]_vars

\* A snake has eaten and moved on: it is longer than it was created, and its
\* head has left the cell the grown segments lie on.
C15_Witness ==
    /\ AdvancedStep
    /\ \E i \in SnakeIds :
        /\ Len(model.snakes[i].cells) > model.snake_len
        /\ model.snakes[i].cells[1] # model.snakes[i].cells[2]

\* The cell one unit step from c in direction d.
UnitStep(c, d) ==
    IF d = "UP" THEN [col |-> c.col, row |-> c.row - 1]
    ELSE IF d = "DOWN" THEN [col |-> c.col, row |-> c.row + 1]
    ELSE IF d = "LEFT" THEN [col |-> c.col - 1, row |-> c.row]
    ELSE [col |-> c.col + 1, row |-> c.row]

\* move applied to s commits the pending direction, puts the head one unit
\* step on, shifts every other segment to its predecessor's cell and adds 1
\* to the score.
MovesRight(s) ==
    LET r == move(s)
    IN  /\ r.direction = s.next_direction
        /\ r.next_direction = s.next_direction
        /\ Len(r.cells) = Len(s.cells)
        /\ r.cells[1] = UnitStep(s.cells[1], s.next_direction)
        /\ \A k \in 2..Len(s.cells) : r.cells[k] = s.cells[k - 1]
        /\ r.points = s.points + 1

\* C16: move is as MovesRight says for every snake a session reaches with
\* any direction pending and for the snake of 3 segments at (10,10) facing
\* UP, whose head is (10,9) and whose score is 1 after one move; and an
\* advancing step leaves every snake with the direction that was pending
\* committed, its head one unit step on and its former segments but the
\* last shifted by one.
C16_MoveSemantics ==
    /\ [](\A i \in SnakeIds : \A d \in Directions :
            MovesRight([model.snakes[i] EXCEPT !.next_direction = d]))
    /\ [](/\ MovesRight(Snake([col |-> 10, row |-> 10], 3, "UP"))
          /\ move(Snake([col |-> 10, row |-> 10], 3, "UP")).cells[1] = [col |-> 10, row |-> 9]
          /\ move(Snake([col |-> 10, row |-> 10], 3, "UP")).points = 1)
    /\ [][(op' = "step" /\ moves' = moves + 1) =>
            \A i \in SnakeIds :
                /\ model'.snakes[i].direction = model'.snakes[i].next_direction
                /\ model'.snakes[i].cells[1] =
                       UnitStep(model.snakes[i].cells[1], model'.snakes[i].direction)
                /\ \A k \in 2..Len(model.snakes[i].cells) :
                       model'.snakes[i].cells[k] = model.snakes[i].cells[k - 1]
                /\ model'.snakes[i].points >= model.snakes[i].points + 1]_vars

\* A snake of two segments has turned LEFT and moved: its second segment
\* lies where its head was.
C16_Witness ==
    /\ AdvancedStep
    /\ \E i \in SnakeIds :
        /\ model.snakes[i].direction = "LEFT"
        /\ Len(model.snakes[i].cells) = 2
        /\ model.snakes[i].cells[2] =
               [col |-> model.snakes[i].cells[1].col + 1, row |-> model.snakes[i].cells[1].row]

\* C17: in an advancing step every food item that lies under the head a
\* snake has moved to is removed and every other item stays, in order; each
\* snake gains 5 segments on its tail cell and 5 points (beside the point of
\* the move) for each item under its head, and the step interval falls by 2
\* for each item removed.
C17_EatingFood ==
    [][(op' = "step" /\ moves' = moves + 1) =>
        LET scan == model.food \o placed'
            head(i) == model'.snakes[i].cells[1]
            under(c) == \E i \in SnakeIds : head(i) = c
            eaten(i) == Cardinality({k \in 1..Len(scan) : scan[k] = head(i)})
        IN  /\ model'.food = SelectSeq(scan, LAMBDA c : ~under(c))
            /\ \A i \in SnakeIds :
                LET n == Len(model.snakes[i].cells)
                IN  /\ Len(model'.snakes[i].cells) = n + 5 * eaten(i)
                    /\ \A k \in (n + 1)..Len(model'.snakes[i].cells) :
                           model'.snakes[i].cells[k] = model'.snakes[i].cells[n]
                    /\ model'.snakes[i].points = model.snakes[i].points + 1 + 5 * eaten(i)
            /\ model'.step_dt = model.step_dt - 2 * (Len(scan) - Len(model'.food))]_vars

\* C18: the highlighted index is one of 0..count-1; in Menu, up moves it one
\* back and down one forward modulo the option count, and the mediator
\* returns None for both; on a menu of any size prev and next stay in range,
\* wrap at the ends and undo each other.
C18_MenuWraps ==
    /\ [](selected_idx \in 0..(Len(Options) - 1))
    /\ [](\A n \in 1..MaxOptions : \A idx \in 0..(n - 1) :
            /\ MenuModel_prev(idx, n) \in 0..(n - 1)
            /\ MenuModel_next(idx, n) \in 0..(n - 1)
            /\ MenuModel_prev(idx, n) = (idx + n - 1) % n
            /\ MenuModel_next(idx, n) = (IF idx = n - 1 THEN 0 ELSE idx + 1)
            /\ MenuModel_next(MenuModel_prev(idx, n), n) = idx
            /\ MenuModel_prev(MenuModel_next(idx, n), n) = idx)
    /\ [][(current = "menu" /\ op' = "up_pressed") =>
            /\ selected_idx' = (selected_idx + Len(Options) - 1) % Len(Options)
            /\ action' = "Action" /\ current' = "menu"]_vars
    /\ [][(current = "menu" /\ op' = "down_pressed") =>
            /\ selected_idx' = (selected_idx + 1) % Len(Options)
            /\ action' = "Action" /\ current' = "menu"]_vars

\* Up was pressed in Menu on the first option: the last one is highlighted.
C18_Witness ==
    /\ current = "menu" /\ op = "up_pressed"
    /\ selected_idx = Len(Options) - 1 /\ view_calls = <<"menu.draw">>

KeysAndUpdate == {"left_pressed", "right_pressed", "up_pressed", "down_pressed", "update"}

\* C19: once the stored result of a game is game over, no direction key and
\* no update moves a snake or replaces the result before the mediator has
\* left for Menu, and the next update leaves for Menu.
C19_GameOverTerminal ==
    [][(current = "game" /\ model.state.is_game_over /\ op' \in KeysAndUpdate) =>
        /\ \A i \in SnakeIds : model'.snakes[i].cells = model.snakes[i].cells
        /\ model'.state.is_game_over
        /\ op' = "update" => current' = "menu"]_vars

\* The grid cells that hold neither a segment of snakes nor an item of food.
FreeCells(dim, snakes, food) ==
    {c \in {[col |-> x, row |-> y] : x \in 0..(dim.width - 1), y \in 0..(dim.height - 1)} :
        /\ \A i \in 1..Len(snakes) : c \notin Cells(snakes[i])
        /\ c \notin Range(food)}

\* C20: an advancing step that is due to add food while a cell is free of
\* the moved snakes and of food does not fail and appends exactly one item,
\* on such a cell: the first free cell visited is always an initial choice.
C20_PlacementCompletes ==
    [][(/\ op' = "step" /\ moves' = moves + 1
        /\ ts' - model.food_ts > model.food_dt
        /\ Len(model.food) < 3
        /\ FreeCells(model.dim, model'.snakes, model.food) # {})
        => /\ raised' = "none"
           /\ Len(placed') = 1
           /\ placed'[1] \in FreeCells(model.dim, model'.snakes, model.food)]_vars

\* The cell j unit steps from c against direction d: below for UP, above for
\* DOWN, to the right for LEFT, to the left for RIGHT.
Behind(c, d, j) ==
    IF d = "UP" THEN [col |-> c.col, row |-> c.row + j]
    ELSE IF d = "DOWN" THEN [col |-> c.col, row |-> c.row - j]
    ELSE IF d = "LEFT" THEN [col |-> c.col + j, row |-> c.row]
    ELSE [col |-> c.col - j, row |-> c.row]

\* C21: a snake as constructed has segment k (the head is segment 0) k unit
\* steps behind its head against its direction, and after its first move,
\* made in the direction it was constructed with, its head is on none of its
\* other segments.
C21_CreateGeometry ==
    LET s == model.snakes[1]
    IN  /\ op = "Snake" =>
            \A k \in 1..Len(s.cells) : s.cells[k] = Behind(s.cells[1], s.direction, k - 1)
        /\ (op = "move" /\ moves = 1) =>
            \A k \in 2..Len(s.cells) : s.cells[k] # s.cells[1]

\* C22: after construction, after a reset and after every advancing step that
\* returned, no food item lies on a cell that holds a segment of a snake.
C22_NoFoodUnderSnake ==
    (op \in {"init", "reset"} \/ AdvancedStep) =>
        \A k \in 1..Len(model.food) : \A i \in SnakeIds :
            model.food[k] \notin Cells(model.snakes[i])
====
